---- MODULE Spec2Model ----
(***************************************************************************)
(* The three text-classifier strategies of text_classifier/strategies/     *)
(* multiclass.py (PyTorchLSTMStrategy, TensorFlowLSTMStrategy,             *)
(* ScikitLearnTFIDFStrategy) as a state machine: two strategy instances of  *)
(* one class, the file system they save to and load from, and the last      *)
(* call made on them with its outcome.                                      *)
(*                                                                         *)
(* Python strings are sequences of one-character strings; a dict is the     *)
(* sequence of its <<key, value>> items in insertion order; None and an     *)
(* unset attribute are the empty sequence <<>> and a set one is <<v>>.      *)
(***************************************************************************)
EXTENDS Integers, Sequences, FiniteSets, TLC

(* ------------------------------------------------------------------ *)
(* Bounds of the model                                                 *)
(* ------------------------------------------------------------------ *)
\* trained parameters are one of 0..MaxParam (the optimiser's result is not determined)
MaxParam == 1
\* train calls made on one instance
MaxTrain == 1
\* the max_len the instances are constructed with
MaxLen == 2

(* ------------------------------------------------------------------ *)
(* Strings                                                             *)
(* ------------------------------------------------------------------ *)
Letters == <<"a","b","c","d","e","f","g","h","i","j","k","l","m",
             "n","o","p","q","r","s","t","u","v","w","x","y","z">>

\* code point of a lower-case letter, as Python compares strings
Ord(c) == 96 + (CHOOSE k \in 1..Len(Letters) : Letters[k] = c)

\* s < t for Python strings (lexicographic by code point)
RECURSIVE StrLess(_, _)
StrLess(s, t) ==
    IF t = <<>> THEN FALSE
    ELSE IF s = <<>> THEN TRUE
    ELSE IF Head(s) = Head(t) THEN StrLess(Tail(s), Tail(t))
    ELSE Ord(Head(s)) < Ord(Head(t))

Range(s) == {s[k] : k \in 1..Len(s)}

\* sorted(set(xs)) for a sequence of strings
RECURSIVE SortSet(_)
SortSet(S) ==
    IF S = {} THEN <<>>
    ELSE LET m == CHOOSE x \in S : \A y \in S \ {x} : StrLess(x, y)
         IN  <<m>> \o SortSet(S \ {m})

Digits == <<"0","1","2","3","4","5","6","7","8","9">>

\* str(i) of a non-negative integer: its decimal digits
RECURSIVE IntToStr(_)
IntToStr(i) ==
    IF i < 10 THEN <<Digits[i + 1]>>
    ELSE IntToStr(i \div 10) \o <<Digits[(i % 10) + 1]>>

(* ------------------------------------------------------------------ *)
(* dicts: sequences of <<key, value>> items                            *)
(* ------------------------------------------------------------------ *)
Keys(d) == {d[k][1] : k \in 1..Len(d)}

HasKey(d, key) == key \in Keys(d)

\* d[key] for a key that is present
Get(d, key) == d[CHOOSE k \in 1..Len(d) : d[k][1] = key][2]

RECURSIVE SumSeq(_)
SumSeq(s) == IF s = <<>> THEN 0 ELSE Head(s) + SumSeq(Tail(s))

(* ------------------------------------------------------------------ *)
(* sklearn LabelEncoder                                                *)
(* ------------------------------------------------------------------ *)
\* LabelEncoder.fit: classes_ = np.unique(y), the sorted distinct labels
LabelEncoder_fit(y) == SortSet(Range(y))

\* the 0-based class index of a label that is one of classes
ClassIndex(classes, label) == (CHOOSE k \in 1..Len(classes) : classes[k] = label) - 1

\* LabelEncoder.transform raises ValueError on a label that is not a class
HasUnseenLabel(classes, y) == \E k \in 1..Len(y) : y[k] \notin Range(classes)

\* LabelEncoder.transform(y) when no label is unseen
LabelEncoder_transform(classes, y) == [k \in 1..Len(y) |-> ClassIndex(classes, y[k])]

(* ------------------------------------------------------------------ *)
(* Keras Tokenizer(num_words=vocab_size, oov_token="<OOV>")            *)
(* ------------------------------------------------------------------ *)
vocab_size == 10000

OOV == <<"<","O","O","V",">">>

\* a Tokenizer before fit_on_texts
NewTokenizer == [word_counts |-> <<>>, word_index |-> <<>>]

\* word_counts[w] += 1, a new word going to the end of the ordered dict
CountWord(counts, w) ==
    IF HasKey(counts, w)
    THEN [k \in 1..Len(counts) |->
            IF counts[k][1] = w THEN <<w, counts[k][2] + 1>> ELSE counts[k]]
    ELSE Append(counts, <<w, 1>>)

RECURSIVE CountWords(_, _)
CountWords(counts, words) ==
    IF words = <<>> THEN counts
    ELSE CountWords(CountWord(counts, Head(words)), Tail(words))

RECURSIVE CountTexts(_, _)
CountTexts(counts, texts) ==
    IF texts = <<>> THEN counts
    ELSE CountTexts(CountWords(counts, Head(texts)), Tail(texts))

\* wcounts.sort(key=count, reverse=True): stable, the most frequent word first
RECURSIVE SortByCount(_)
SortByCount(counts) ==
    IF counts = <<>> THEN <<>>
    ELSE LET k == CHOOSE i \in 1..Len(counts) :
                    /\ \A j \in 1..Len(counts) : counts[j][2] <= counts[i][2]
                    /\ \A j \in 1..(i - 1) : counts[j][2] < counts[i][2]
         IN  <<counts[k][1]>>
             \o SortByCount(SubSeq(counts, 1, k - 1) \o SubSeq(counts, k + 1, Len(counts)))

\* Tokenizer.fit_on_texts: the counts accumulate over calls, word_index is rebuilt
\* with the OOV token at index 1
fit_on_texts(tok, texts) ==
    LET counts == CountTexts(tok.word_counts, texts)
        voc    == <<OOV>> \o SortByCount(counts)
    IN  [word_counts |-> counts,
         word_index  |-> [k \in 1..Len(voc) |-> <<voc[k], k>>]]

\* the index Tokenizer.texts_to_sequences gives one word; <<>> when it gives none
WordToIndex(word_index, w) ==
    LET oov == IF HasKey(word_index, OOV) THEN <<Get(word_index, OOV)>> ELSE <<>>
    IN  IF HasKey(word_index, w)
        THEN IF Get(word_index, w) >= vocab_size THEN oov ELSE <<Get(word_index, w)>>
        ELSE oov

RECURSIVE TextToSequence(_, _)
TextToSequence(word_index, text) ==
    IF text = <<>> THEN <<>>
    ELSE WordToIndex(word_index, Head(text)) \o TextToSequence(word_index, Tail(text))

\* Tokenizer.texts_to_sequences(X)
texts_to_sequences(word_index, X) ==
    [k \in 1..Len(X) |-> TextToSequence(word_index, X[k])]

\* pad_sequences without padding="post": zeros on the left
PadOnePre(s, maxlen) ==
    LET trunc == IF Len(s) > maxlen THEN SubSeq(s, Len(s) - maxlen + 1, Len(s)) ELSE s
    IN  [k \in 1..(maxlen - Len(trunc)) |-> 0] \o trunc

\* pad_sequences of one sequence: truncating="pre" (the default) keeps the last
\* maxlen entries, padding="post" fills with zeros on the right
PadOne(s, maxlen) ==
    LET trunc == IF Len(s) > maxlen THEN SubSeq(s, Len(s) - maxlen + 1, Len(s)) ELSE s
    IN  trunc \o [k \in 1..(maxlen - Len(trunc)) |-> 0]

\* pad_sequences(sequences, maxlen=max_len, padding="post")
pad_sequences(seqs, maxlen) == [k \in 1..Len(seqs) |-> PadOne(seqs[k], maxlen)]

(* ------------------------------------------------------------------ *)
(* sklearn TfidfVectorizer                                             *)
(* ------------------------------------------------------------------ *)
RECURSIVE Concat(_)
Concat(texts) == IF texts = <<>> THEN <<>> ELSE Head(texts) \o Concat(Tail(texts))

\* the distinct words of a sequence in first-seen order
RECURSIVE FirstSeen(_, _)
FirstSeen(words, seen) ==
    IF words = <<>> THEN <<>>
    ELSE IF Head(words) \in seen THEN FirstSeen(Tail(words), seen)
    ELSE <<Head(words)>> \o FirstSeen(Tail(words), seen \cup {Head(words)})

\* TfidfVectorizer.fit: vocabulary_ maps each term to its rank among the sorted terms
TfidfVocabulary(X) ==
    LET terms  == FirstSeen(Concat(X), {})
        sorted == SortSet(Range(terms))
    IN  [k \in 1..Len(terms) |-> <<terms[k], ClassIndex(sorted, terms[k])>>]

(* ------------------------------------------------------------------ *)
(* Paths and the file system                                           *)
(* ------------------------------------------------------------------ *)
Slash == <<"/">>

\* the directory every load_model reads from
ModelsDir == <<"m","o","d","e","l","s">>

\* f"{self.output_path}": None formats as the text None
FormatPath(output_path) ==
    IF output_path = <<>> THEN <<"N","o","n","e">> ELSE output_path[1]

\* f"{self.output_path}/{name}", the path save_model and export_to_onnx write
SavePath(output_path, name) == FormatPath(output_path) \o Slash \o name

\* f"models/{filename_prefix}_{name}", the path load_model reads
LoadPath(prefix, name) == ModelsDir \o Slash \o prefix \o <<"_">> \o name

\* os.path.dirname: what precedes the last slash, without trailing slashes
RECURSIVE StripSlashes(_)
StripSlashes(s) ==
    IF s # <<>> /\ s[Len(s)] = "/" /\ \E k \in 1..Len(s) : s[k] # "/"
    THEN StripSlashes(SubSeq(s, 1, Len(s) - 1))
    ELSE s

Dirname(path) ==
    LET cut == {k \in 1..Len(path) : path[k] = "/"}
    IN  IF cut = {} THEN <<>>
        ELSE StripSlashes(SubSeq(path, 1, CHOOSE k \in cut : \A j \in cut : j <= k))

\* the directories os.makedirs(d, exist_ok=True) leaves in existence
RECURSIVE Ancestors(_)
Ancestors(d) == IF d = <<>> THEN {} ELSE {d} \cup Ancestors(Dirname(d))

makedirs(ds, d) == ds \cup Ancestors(d)

\* a file can be created where its directory exists (the working directory does)
CanWrite(ds, path) == Dirname(path) = <<>> \/ Dirname(path) \in ds

NoFiles == [p \in {} |-> <<>>]

WriteFile(files, path, content) ==
    [p \in (DOMAIN files) \cup {path} |-> IF p = path THEN content ELSE files[p]]

\* file names
vocab_json  == <<"v","o","c","a","b",".","j","s","o","n">>
scaler_json == <<"s","c","a","l","e","r",".","j","s","o","n">>
model_onnx  == <<"m","o","d","e","l",".","o","n","n","x">>

Kinds == {"pytorch", "tensorflow", "sklearn"}

\* model.pt, model.h5 or model.pkl
ModelFile(k) ==
    <<"m","o","d","e","l",".">> \o
    (IF k = "pytorch" THEN <<"p","t">>
     ELSE IF k = "tensorflow" THEN <<"h","5">> ELSE <<"p","k","l">>)

(* ------------------------------------------------------------------ *)
(* Values of y and of predictions: integers and strings                *)
(* ------------------------------------------------------------------ *)
IntVal(i) == [t |-> "int", i |-> i, s |-> <<>>]
StrVal(s) == [t |-> "str", i |-> 0, s |-> s]

IntVals(xs) == [k \in 1..Len(xs) |-> IntVal(xs[k])]

(* ------------------------------------------------------------------ *)
(* The models                                                          *)
(* ------------------------------------------------------------------ *)
\* a network or a fitted pipeline: its parameters, the number of outputs, the
\* training mode (torch), and for the pipeline the tfidf vocabulary_ and the
\* classifier's classes_
Network(params, n, training) ==
    [params |-> params, num_classes |-> n, training |-> training,
     vocabulary |-> <<>>, classes |-> <<>>]

\* argmax of the network's outputs on one padded row
Forward(m, row) == (m.params + SumSeq(row)) % m.num_classes

\* the number of words of a text the vectorizer knows
RECURSIVE KnownWords(_, _)
KnownWords(vocabulary, text) ==
    IF text = <<>> THEN 0
    ELSE (IF HasKey(vocabulary, Head(text)) THEN 1 ELSE 0) + KnownWords(vocabulary, Tail(text))

\* Pipeline.predict on one text: the member of clf.classes_ with the best score
PipelinePredict(m, text) ==
    m.classes[((m.params + KnownWords(m.vocabulary, text)) % Len(m.classes)) + 1]

\* a pipeline fitted on the labels themselves
PipelineTargetsRaw(y_train, y_train_enc) == [k \in 1..Len(y_train) |-> StrVal(y_train[k])]

\* the y the pipeline is fitted on: the encoded labels
PipelineTargets(y_train, y_train_enc) == IntVals(y_train_enc)

\* np.unique of a sequence of class indices, as values
RECURSIVE SortInts(_)
SortInts(S) ==
    IF S = {} THEN <<>>
    ELSE LET m == CHOOSE x \in S : \A y \in S : x <= y
         IN  <<m>> \o SortInts(S \ {m})

\* clf.classes_ after fit: the sorted distinct targets
ClfClasses(targets) ==
    LET ints == {targets[k].i : k \in {j \in 1..Len(targets) : targets[j].t = "int"}}
        strs == {targets[k].s : k \in {j \in 1..Len(targets) : targets[j].t = "str"}}
    IN  IntVals(SortInts(ints)) \o
        [k \in 1..Cardinality(strs) |-> StrVal(SortSet(strs)[k])]

\* a predict that steps the parameters as a training pass does
model_eval_step(m) == [m EXCEPT !.training = FALSE, !.params = (m.params + 1) % (MaxParam + 1)]

\* model.eval()
model_eval(m) == [m EXCEPT !.training = FALSE]

\* a label map numbered from 1
LabelMapJsonFromOne(classes) == [k \in 1..Len(classes) |-> <<IntToStr(k), classes[k]>>]

\* the label map save_model writes: json.dump of {i: label}, the keys becoming text
LabelMapJson(classes) == [k \in 1..Len(classes) |-> <<IntToStr(k - 1), classes[k]>>]

\* load_model's [classes[str(i)] for i in range(len(classes))]; KeyError without the key
LabelMapKeysOk(json) == \A i \in 0..(Len(json) - 1) : HasKey(json, IntToStr(i))

LabelMapClasses(json) == [k \in 1..Len(json) |-> Get(json, IntToStr(k - 1))]

(* ------------------------------------------------------------------ *)
(* Inputs                                                              *)
(* ------------------------------------------------------------------ *)
good == <<"g","o","o","d">>
bad  == <<"b","a","d">>

pos == <<"p","o","s">>
neg == <<"n","e","g">>
neu == <<"n","e","u">>

\* texts of 0, 1, 2 and 3 words
t0 == <<>>
t1 == <<good>>
t2 == <<good, bad>>
t3 == <<bad, good, bad>>

\* the training sets offered to train: every one has at least two classes
Datasets ==
    { \* the test labels miss a class: the report depends on the predictions
      [X_train |-> <<t1, t3>>, y_train |-> <<pos, neg>>,
       X_test  |-> <<t2>>,     y_test  |-> <<pos>>],
      \* a test label the training labels do not have
      [X_train |-> <<t1, t3>>, y_train |-> <<pos, neg>>,
       X_test  |-> <<t0>>,     y_test  |-> <<neu>>],
      \* three classes, every one among the test labels
      [X_train |-> <<t2, t1, t0>>, y_train |-> <<neu, pos, neg>>,
       X_test  |-> <<t0, t1, t3>>, y_test  |-> <<neg, neu, pos>>] }

\* a text of n words
Text(n) == [k \in 1..n |-> IF k % 2 = 1 THEN bad ELSE good]

\* the raw text samples offered to predict: of 0 words up to one more than max_len
Samples == [n \in 1..(MaxLen + 2) |-> Text(n - 1)]

\* already padded rows, as TensorFlowLSTMStrategy.predict takes them
Rows(maxlen) == << [k \in 1..maxlen |-> 0], [k \in 1..maxlen |-> k] >>

\* the strategy instances: A is trained, saves and exports; both load and predict
Inst == {"A", "B"}

Trainers == {"A"}

\* the output_path arguments: the default None, and "models"
OutputPaths == {<<>>, <<ModelsDir>>}

\* the prefixes offered to load_model
Prefixes == {<<"a">>, <<"b">>}

(* ------------------------------------------------------------------ *)
(* State                                                               *)
(* ------------------------------------------------------------------ *)
VARIABLES
    kind,           \* the class of both instances
    max_len,        \* self.max_len
    output_path,    \* self.output_path
    tokenizer,      \* self.tokenizer: word_counts and word_index
    label_encoder,  \* self.label_encoder: <<>> before classes_ exists, else <<classes_>>
    model,          \* self.model / the fitted self.pipeline: <<>> or <<m>>
    is_trained,     \* self._is_trained
    dirs,           \* the directories that exist
    fs,             \* the files: path -> content
    call,           \* the last call and its outcome
    hist            \* per instance: how often vocabulary and classes were set, and
                    \* whether a train or load_model has returned

vars == <<kind, max_len, output_path, tokenizer, label_encoder, model, is_trained,
          dirs, fs, call, hist>>

Bump(n) == IF n < 2 THEN n + 1 ELSE n

\* the record of a call: what was called on which instance, how it ended, what it
\* returned, the sequences it built and the files it wrote
Call(op, i, arg, outcome, ret, tokens, padded, written) ==
    [op |-> op, inst |-> i, arg |-> arg, outcome |-> outcome, ret |-> ret,
     tokens |-> tokens, padded |-> padded, written |-> written, prefix |-> <<>>,
     \* the call before was a train on this instance that returned
     after_train |-> (call.op = "train" /\ call.outcome = "ok" /\ call.inst = i),
     \* the instance was as constructed when the call was made
     fresh |-> (/\ tokenizer[i] = NewTokenizer /\ label_encoder[i] = <<>>
                /\ model[i] = <<>> /\ ~is_trained[i])]

CallLoad(i, prefix, outcome) ==
    [Call("load_model", i, "none", outcome, <<>>, <<>>, <<>>, {}) EXCEPT !.prefix = prefix]

\* a file's content: a serialized model or a JSON object
ModelContent(m) == [model |-> <<m>>, json |-> <<>>]
JsonContent(d)  == [model |-> <<>>, json |-> d]

\* the artifacts an earlier run left under models/: those of a model trained on
\* pos/neg, complete for prefix a, the model file alone for prefix b
RefData == [X_train |-> <<t1, t3>>, y_train |-> <<pos, neg>>,
            X_test  |-> <<t2>>,     y_test  |-> <<neg>>]

RefClasses == LabelEncoder_fit(RefData.y_train)

RefModel(k) ==
    IF k = "sklearn"
    THEN [params |-> 0, num_classes |-> Len(RefClasses), training |-> FALSE,
          vocabulary |-> TfidfVocabulary(RefData.X_train),
          classes |-> ClfClasses(PipelineTargets(RefData.y_train,
                         LabelEncoder_transform(RefClasses, RefData.y_train)))]
    ELSE Network(0, Len(RefClasses), FALSE)

RefVocab(k) ==
    IF k = "sklearn" THEN TfidfVocabulary(RefData.X_train)
    ELSE fit_on_texts(NewTokenizer, RefData.X_train \o RefData.X_test).word_index

Existing(k) ==
    WriteFile(WriteFile(WriteFile(WriteFile(NoFiles,
        LoadPath(<<"a">>, ModelFile(k)), ModelContent(RefModel(k))),
        LoadPath(<<"a">>, vocab_json), JsonContent(RefVocab(k))),
        LoadPath(<<"a">>, scaler_json), JsonContent(LabelMapJson(RefClasses))),
        LoadPath(<<"b">>, ModelFile(k)), ModelContent(RefModel(k)))

Init ==
    /\ kind \in Kinds
    /\ max_len = [i \in Inst |-> MaxLen]
    /\ output_path \in {[i \in Inst |-> o] : o \in OutputPaths}
    /\ tokenizer = [i \in Inst |-> NewTokenizer]
    /\ label_encoder = [i \in Inst |-> <<>>]
    /\ model = [i \in Inst |-> <<>>]
    /\ is_trained = [i \in Inst |-> FALSE]
    /\ \E existing \in BOOLEAN :
         /\ dirs = IF existing THEN {ModelsDir} ELSE {}
         /\ fs = IF existing THEN Existing(kind) ELSE NoFiles
    /\ call = [op |-> "init", inst |-> "A", arg |-> "none", outcome |-> "ok",
               ret |-> <<>>, tokens |-> <<>>, padded |-> <<>>, written |-> {},
               prefix |-> <<>>, after_train |-> FALSE, fresh |-> TRUE]
    /\ hist = [i \in Inst |-> [vocab_sets |-> 0, label_sets |-> 0, trains |-> 0,
                               returned |-> FALSE]]

(* ------------------------------------------------------------------ *)
(* Helpers of the handlers                                             *)
(* ------------------------------------------------------------------ *)
Correct(y_enc, pred) == Cardinality({k \in 1..Len(y_enc) : y_enc[k] = pred[k]})

\* classification_report(y_true, y_pred, target_names=classes_) raises ValueError
\* when the labels present in y_true and y_pred are not as many as target_names
ReportRaises(y_true, y_pred, classes) ==
    Cardinality(Range(y_true) \cup Range(y_pred)) # Len(classes)

\* the metrics train returns: the correct predictions on the two partitions
Metrics(y_train_enc, train_pred, y_test_enc, test_pred) ==
    IntVals(<<Correct(y_train_enc, train_pred), Correct(y_test_enc, test_pred)>>)

NoteFit(h, vocab, labels, returned) ==
    [vocab_sets |-> IF vocab THEN Bump(h.vocab_sets) ELSE h.vocab_sets,
     label_sets |-> IF labels THEN Bump(h.label_sets) ELSE h.label_sets,
     trains     |-> h.trains,
     returned   |-> h.returned \/ returned]

NoteTrain(h) == [h EXCEPT !.trains = h.trains + 1]

Artifacts(k) == {ModelFile(k), vocab_json, scaler_json}

(* ------------------------------------------------------------------ *)
(* PyTorchLSTMStrategy                                                 *)
(* ------------------------------------------------------------------ *)
\* predict(X) on raw texts: no check of the trained flag; self.model.eval() is an
\* AttributeError while self.model is None
PyTorchLSTMStrategy_predict(i, X) ==
    /\ kind = "pytorch"
    /\ IF model[i] = <<>>
       THEN /\ call' = Call("predict", i, "text", "AttributeError", <<>>, <<>>, <<>>, {})
            /\ UNCHANGED model
       ELSE \E net \in {model_eval(model[i][1])},
               X_seq \in {texts_to_sequences(tokenizer[i].word_index, X)} :
            \E X_pad \in {pad_sequences(X_seq, max_len[i])} :
              /\ model' = [model EXCEPT ![i] = <<net>>]
              /\ call' = Call("predict", i, "text", "ok",
                              IntVals([k \in 1..Len(X_pad) |-> Forward(net, X_pad[k])]),
                              X_seq, X_pad, {})
    /\ UNCHANGED <<kind, max_len, output_path, tokenizer, label_encoder, is_trained,
                   dirs, fs, hist>>

\* train: p is what the optimiser arrives at. The flag is set before the
\* evaluation, which runs predict on both partitions and builds the report
PyTorchLSTMStrategy_train(i, d, p) ==
    /\ kind = "pytorch"
    /\ hist[i].trains < MaxTrain
    /\ \E tok \in {fit_on_texts(tokenizer[i], d.X_train \o d.X_test)},
          classes \in {LabelEncoder_fit(d.y_train)} :
       \E tr_seq \in {texts_to_sequences(tok.word_index, d.X_train)},
          te_seq \in {texts_to_sequences(tok.word_index, d.X_test)},
          unseen \in {HasUnseenLabel(classes, d.y_test)},
          net \in {model_eval(Network(p, Len(classes), TRUE))} :
       \E X_train_seq \in {pad_sequences(tr_seq, max_len[i])},
          X_test_seq \in {pad_sequences(te_seq, max_len[i])} :
         /\ tokenizer' = [tokenizer EXCEPT ![i] = tok]
         /\ label_encoder' = [label_encoder EXCEPT ![i] = <<classes>>]
         /\ IF unseen
            THEN /\ UNCHANGED <<model, is_trained>>
                 /\ call' = Call("train", i, "text", "ValueError", <<>>,
                                 tr_seq \o te_seq, X_train_seq \o X_test_seq, {})
                 /\ hist' = [hist EXCEPT ![i] = NoteTrain(NoteFit(hist[i], TRUE, TRUE, FALSE))]
            ELSE \E y_train_enc \in {LabelEncoder_transform(classes, d.y_train)},
                    y_test_enc \in {LabelEncoder_transform(classes, d.y_test)},
                    train_pred \in {[k \in 1..Len(X_train_seq) |-> Forward(net, X_train_seq[k])]},
                    test_pred \in {[k \in 1..Len(X_test_seq) |-> Forward(net, X_test_seq[k])]} :
                 \E raises \in {ReportRaises(y_test_enc, test_pred, classes)} :
                   /\ model' = [model EXCEPT ![i] = <<net>>]
                   /\ is_trained' = [is_trained EXCEPT ![i] = TRUE]
                   /\ call' = Call("train", i, "text",
                                   IF raises THEN "ValueError" ELSE "ok",
                                   IF raises THEN <<>>
                                   ELSE Metrics(y_train_enc, train_pred, y_test_enc, test_pred),
                                   tr_seq \o te_seq, X_train_seq \o X_test_seq, {})
                   /\ hist' = [hist EXCEPT ![i] =
                                 NoteTrain(NoteFit(hist[i], TRUE, TRUE, ~raises))]
    /\ UNCHANGED <<kind, max_len, output_path, dirs, fs>>

\* export_to_onnx: the flag is checked, the model put in eval mode and the graph
\* written to {output_path}/model.onnx, whose directory is not created
PyTorchLSTMStrategy_export_to_onnx(i) ==
    /\ kind = "pytorch"
    /\ LET path == SavePath(output_path[i], model_onnx)
           net  == model_eval(model[i][1])
       IN  IF ~is_trained[i]
           THEN /\ call' = Call("export_to_onnx", i, "none", "untrained", <<>>, <<>>, <<>>, {})
                /\ UNCHANGED <<model, fs>>
           ELSE /\ model' = [model EXCEPT ![i] = <<net>>]
                /\ IF CanWrite(dirs, path)
                   THEN /\ fs' = WriteFile(fs, path, ModelContent(net))
                        /\ call' = Call("export_to_onnx", i, "none", "ok", <<>>, <<>>, <<>>, {path})
                   ELSE /\ fs' = fs
                        /\ call' = Call("export_to_onnx", i, "none", "FileNotFoundError",
                                        <<>>, <<>>, <<>>, {})
    /\ UNCHANGED <<kind, max_len, output_path, tokenizer, label_encoder, is_trained,
                   dirs, hist>>

\* save_model: the flag is checked, "models" is created, the three artifacts are
\* written under output_path, then export_to_onnx runs
PyTorchLSTMStrategy_save_model(i) ==
    /\ kind = "pytorch"
    /\ IF ~is_trained[i]
       THEN /\ call' = Call("save_model", i, "none", "untrained", <<>>, <<>>, <<>>, {})
            /\ UNCHANGED <<model, dirs, fs>>
       ELSE LET made == makedirs(dirs, ModelsDir)
                pm   == SavePath(output_path[i], ModelFile(kind))
                pv   == SavePath(output_path[i], vocab_json)
                ps   == SavePath(output_path[i], scaler_json)
                po   == SavePath(output_path[i], model_onnx)
                net  == model_eval(model[i][1])
                f1   == WriteFile(fs, pm, ModelContent(model_eval(model[i][1])))
                f2   == WriteFile(f1, pv, JsonContent(tokenizer[i].word_index))
                f3   == WriteFile(f2, ps, JsonContent(LabelMapJson(label_encoder[i][1])))
                f4   == WriteFile(f3, po, ModelContent(net))
            IN  /\ dirs' = made
                /\ IF CanWrite(made, pm)
                   THEN /\ fs' = f4
                        /\ model' = [model EXCEPT ![i] = <<net>>]
                        /\ call' = Call("save_model", i, "none", "ok", <<>>, <<>>, <<>>,
                                        {pm, pv, ps, po})
                   ELSE /\ UNCHANGED <<fs, model>>
                        /\ call' = Call("save_model", i, "none", "FileNotFoundError",
                                        <<>>, <<>>, <<>>, {})
    /\ UNCHANGED <<kind, max_len, output_path, tokenizer, label_encoder, is_trained, hist>>

\* load_model(prefix): a model is built for len(label_encoder.classes_) classes
\* (an AttributeError before a fit), p0 being its initial parameters; the state
\* dict, the vocabulary and the label map are read; the flag is set last
PyTorchLSTMStrategy_load_model(i, prefix, p0) ==
    /\ kind = "pytorch"
    /\ LET pm == LoadPath(prefix, ModelFile(kind))
           pv == LoadPath(prefix, vocab_json)
           ps == LoadPath(prefix, scaler_json)
           built  == Network(p0, Len(label_encoder[i][1]), TRUE)
           loaded == [built EXCEPT !.params = fs[pm].model[1].params]
           step ==
             IF label_encoder[i] = <<>> THEN 0
             ELSE IF pm \notin DOMAIN fs THEN 1
             ELSE IF fs[pm].model[1].num_classes # built.num_classes THEN 2
             ELSE IF pv \notin DOMAIN fs THEN 3
             ELSE IF ps \notin DOMAIN fs THEN 4
             ELSE IF ~LabelMapKeysOk(fs[ps].json) THEN 5
             ELSE 6
       IN  /\ model' = IF step = 0 THEN model
                       ELSE IF step \in {1, 2} THEN [model EXCEPT ![i] = <<built>>]
                       ELSE [model EXCEPT ![i] = <<loaded>>]
           /\ tokenizer' = IF step >= 4
                           THEN [tokenizer EXCEPT ![i].word_index = fs[pv].json]
                           ELSE tokenizer
           /\ label_encoder' = IF step = 6
                               THEN [label_encoder EXCEPT ![i] = <<LabelMapClasses(fs[ps].json)>>]
                               ELSE label_encoder
           /\ is_trained' = IF step = 6 THEN [is_trained EXCEPT ![i] = TRUE] ELSE is_trained
           /\ call' = CallLoad(i, prefix,
                           CASE step = 0 -> "AttributeError"
                             [] step = 2 -> "size_mismatch"
                             [] step = 5 -> "KeyError"
                             [] step = 6 -> "ok"
                             [] OTHER    -> "FileNotFoundError")
           /\ hist' = [hist EXCEPT ![i] = NoteFit(hist[i], step >= 4, step = 6, step = 6)]
    /\ UNCHANGED <<kind, max_len, output_path, dirs, fs>>

(* ------------------------------------------------------------------ *)
(* TensorFlowLSTMStrategy                                              *)
(* ------------------------------------------------------------------ *)
\* predict(X_seq): no check of the trained flag and no tokenizing; the model takes
\* padded integer rows and rejects raw text
TensorFlowLSTMStrategy_predict(i, X, arg) ==
    /\ kind = "tensorflow"
    /\ call' = IF model[i] = <<>>
               THEN Call("predict", i, arg, "AttributeError", <<>>, <<>>, <<>>, {})
               ELSE IF arg = "text"
               THEN Call("predict", i, arg, "ValueError", <<>>, <<>>, <<>>, {})
               ELSE Call("predict", i, arg, "ok",
                         IntVals([k \in 1..Len(X) |-> Forward(model[i][1], X[k])]),
                         <<>>, <<>>, {})
    /\ UNCHANGED <<kind, max_len, output_path, tokenizer, label_encoder, model,
                   is_trained, dirs, fs, hist>>

\* train: as the torch strategy's; the evaluation predicts from the padded rows
TensorFlowLSTMStrategy_train(i, d, p) ==
    /\ kind = "tensorflow"
    /\ hist[i].trains < MaxTrain
    /\ \E tok \in {fit_on_texts(tokenizer[i], d.X_train \o d.X_test)},
          classes \in {LabelEncoder_fit(d.y_train)} :
       \E tr_seq \in {texts_to_sequences(tok.word_index, d.X_train)},
          te_seq \in {texts_to_sequences(tok.word_index, d.X_test)},
          unseen \in {HasUnseenLabel(classes, d.y_test)},
          net \in {Network(p, Len(classes), FALSE)} :
       \E X_train_seq \in {pad_sequences(tr_seq, max_len[i])},
          X_test_seq \in {pad_sequences(te_seq, max_len[i])} :
         /\ tokenizer' = [tokenizer EXCEPT ![i] = tok]
         /\ label_encoder' = [label_encoder EXCEPT ![i] = <<classes>>]
         /\ IF unseen
            THEN /\ UNCHANGED <<model, is_trained>>
                 /\ call' = Call("train", i, "text", "ValueError", <<>>,
                                 tr_seq \o te_seq, X_train_seq \o X_test_seq, {})
                 /\ hist' = [hist EXCEPT ![i] = NoteTrain(NoteFit(hist[i], TRUE, TRUE, FALSE))]
            ELSE \E y_train_enc \in {LabelEncoder_transform(classes, d.y_train)},
                    y_test_enc \in {LabelEncoder_transform(classes, d.y_test)},
                    train_pred \in {[k \in 1..Len(X_train_seq) |-> Forward(net, X_train_seq[k])]},
                    test_pred \in {[k \in 1..Len(X_test_seq) |-> Forward(net, X_test_seq[k])]} :
                 \E raises \in {ReportRaises(y_test_enc, test_pred, classes)} :
                   /\ model' = [model EXCEPT ![i] = <<net>>]
                   /\ is_trained' = [is_trained EXCEPT ![i] = TRUE]
                   /\ call' = Call("train", i, "text",
                                   IF raises THEN "ValueError" ELSE "ok",
                                   IF raises THEN <<>>
                                   ELSE Metrics(y_train_enc, train_pred, y_test_enc, test_pred),
                                   tr_seq \o te_seq, X_train_seq \o X_test_seq, {})
                   /\ hist' = [hist EXCEPT ![i] =
                                 NoteTrain(NoteFit(hist[i], TRUE, TRUE, ~raises))]
    /\ UNCHANGED <<kind, max_len, output_path, dirs, fs>>

\* export_to_onnx: the flag is checked, the directory of the output file is created
\* and the graph written
TensorFlowLSTMStrategy_export_to_onnx(i) ==
    /\ kind = "tensorflow"
    /\ LET path == SavePath(output_path[i], model_onnx)
       IN  IF ~is_trained[i]
           THEN /\ call' = Call("export_to_onnx", i, "none", "untrained", <<>>, <<>>, <<>>, {})
                /\ UNCHANGED <<dirs, fs>>
           ELSE /\ dirs' = makedirs(dirs, Dirname(path))
                /\ fs' = WriteFile(fs, path, ModelContent(model[i][1]))
                /\ call' = Call("export_to_onnx", i, "none", "ok", <<>>, <<>>, <<>>, {path})
    /\ UNCHANGED <<kind, max_len, output_path, tokenizer, label_encoder, model,
                   is_trained, hist>>

\* save_model: the flag is checked, "models" is created, the three artifacts are
\* written under output_path (Keras creates the directory of the .h5 file it
\* saves), then export_to_onnx runs
TensorFlowLSTMStrategy_save_model(i) ==
    /\ kind = "tensorflow"
    /\ IF ~is_trained[i]
       THEN /\ call' = Call("save_model", i, "none", "untrained", <<>>, <<>>, <<>>, {})
            /\ UNCHANGED <<dirs, fs>>
       ELSE LET pm   == SavePath(output_path[i], ModelFile(kind))
                pv   == SavePath(output_path[i], vocab_json)
                ps   == SavePath(output_path[i], scaler_json)
                po   == SavePath(output_path[i], model_onnx)
                f1   == WriteFile(fs, pm, ModelContent(model[i][1]))
                f2   == WriteFile(f1, pv, JsonContent(tokenizer[i].word_index))
                f3   == WriteFile(f2, ps, JsonContent(LabelMapJson(label_encoder[i][1])))
                f4   == WriteFile(f3, po, ModelContent(model[i][1]))
            IN  /\ dirs' = makedirs(makedirs(makedirs(dirs, ModelsDir), Dirname(pm)), Dirname(po))
                /\ fs' = f4
                /\ call' = Call("save_model", i, "none", "ok", <<>>, <<>>, <<>>,
                                {pm, pv, ps, po})
    /\ UNCHANGED <<kind, max_len, output_path, tokenizer, label_encoder, model,
                   is_trained, hist>>

\* load_model(prefix): the model, the vocabulary and the label map are read in
\* this order, each assigned as soon as it is read; the flag is set last
TensorFlowLSTMStrategy_load_model(i, prefix) ==
    /\ kind = "tensorflow"
    /\ LET pm == LoadPath(prefix, ModelFile(kind))
           pv == LoadPath(prefix, vocab_json)
           ps == LoadPath(prefix, scaler_json)
           step ==
             IF pm \notin DOMAIN fs THEN 1
             ELSE IF pv \notin DOMAIN fs THEN 3
             ELSE IF ps \notin DOMAIN fs THEN 4
             ELSE IF ~LabelMapKeysOk(fs[ps].json) THEN 5
             ELSE 6
       IN  /\ model' = IF step = 1 THEN model ELSE [model EXCEPT ![i] = fs[pm].model]
           /\ tokenizer' = IF step >= 4
                           THEN [tokenizer EXCEPT ![i].word_index = fs[pv].json]
                           ELSE tokenizer
           /\ label_encoder' = IF step = 6
                               THEN [label_encoder EXCEPT ![i] = <<LabelMapClasses(fs[ps].json)>>]
                               ELSE label_encoder
           /\ is_trained' = IF step = 6 THEN [is_trained EXCEPT ![i] = TRUE] ELSE is_trained
           /\ call' = CallLoad(i, prefix,
                           CASE step = 5 -> "KeyError"
                             [] step = 6 -> "ok"
                             [] OTHER    -> "FileNotFoundError")
           /\ hist' = [hist EXCEPT ![i] = NoteFit(hist[i], step >= 4, step = 6, step = 6)]
    /\ UNCHANGED <<kind, max_len, output_path, dirs, fs>>

(* ------------------------------------------------------------------ *)
(* ScikitLearnTFIDFStrategy                                            *)
(* ------------------------------------------------------------------ *)
\* predict(X) on raw texts: the flag is checked, then the pipeline predicts
ScikitLearnTFIDFStrategy_predict(i, X) ==
    /\ kind = "sklearn"
    /\ call' = IF ~is_trained[i]
               THEN Call("predict", i, "text", "untrained", <<>>, <<>>, <<>>, {})
               ELSE Call("predict", i, "text", "ok",
                         [k \in 1..Len(X) |-> PipelinePredict(model[i][1], X[k])],
                         <<>>, <<>>, {})
    /\ UNCHANGED <<kind, max_len, output_path, tokenizer, label_encoder, model,
                   is_trained, dirs, fs, hist>>

\* train: the labels are encoded, the pipeline is fitted on X_train and the encoded
\* labels, the flag is set, then the metrics are computed
ScikitLearnTFIDFStrategy_train(i, d, p) ==
    /\ kind = "sklearn"
    /\ hist[i].trains < MaxTrain
    /\ \E classes \in {LabelEncoder_fit(d.y_train)} :
       \E unseen \in {HasUnseenLabel(classes, d.y_test)} :
         /\ label_encoder' = [label_encoder EXCEPT ![i] = <<classes>>]
         /\ IF unseen
            THEN /\ UNCHANGED <<model, is_trained>>
                 /\ call' = Call("train", i, "text", "ValueError", <<>>, <<>>, <<>>, {})
                 /\ hist' = [hist EXCEPT ![i] = NoteTrain(NoteFit(hist[i], FALSE, TRUE, FALSE))]
            ELSE \E y_train_enc \in {LabelEncoder_transform(classes, d.y_train)},
                    y_test_enc \in {LabelEncoder_transform(classes, d.y_test)} :
                 \E clf \in {ClfClasses(PipelineTargets(d.y_train, y_train_enc))} :
                 \E pipe \in {[params |-> p, num_classes |-> Len(clf), training |-> FALSE,
                               vocabulary |-> TfidfVocabulary(d.X_train), classes |-> clf]} :
                 \E train_pred \in {[k \in 1..Len(d.X_train) |-> PipelinePredict(pipe, d.X_train[k])]},
                    test_pred \in {[k \in 1..Len(d.X_test) |-> PipelinePredict(pipe, d.X_test[k])]} :
                 \E raises \in {ReportRaises(IntVals(y_test_enc), test_pred, classes)} :
                   /\ model' = [model EXCEPT ![i] = <<pipe>>]
                   /\ is_trained' = [is_trained EXCEPT ![i] = TRUE]
                   /\ call' = Call("train", i, "text",
                                   IF raises THEN "ValueError" ELSE "ok",
                                   IF raises THEN <<>>
                                   ELSE Metrics(IntVals(y_train_enc), train_pred,
                                                IntVals(y_test_enc), test_pred),
                                   <<>>, <<>>, {})
                   /\ hist' = [hist EXCEPT ![i] =
                                 NoteTrain(NoteFit(hist[i], TRUE, TRUE, ~raises))]
    /\ UNCHANGED <<kind, max_len, output_path, tokenizer, dirs, fs>>

\* export_to_onnx: the flag is checked, the directory of the output file is created
\* and the converted pipeline written
ScikitLearnTFIDFStrategy_export_to_onnx(i) ==
    /\ kind = "sklearn"
    /\ LET path == SavePath(output_path[i], model_onnx)
       IN  IF ~is_trained[i]
           THEN /\ call' = Call("export_to_onnx", i, "none", "untrained", <<>>, <<>>, <<>>, {})
                /\ UNCHANGED <<dirs, fs>>
           ELSE /\ dirs' = makedirs(dirs, Dirname(path))
                /\ fs' = WriteFile(fs, path, ModelContent(model[i][1]))
                /\ call' = Call("export_to_onnx", i, "none", "ok", <<>>, <<>>, <<>>, {path})
    /\ UNCHANGED <<kind, max_len, output_path, tokenizer, label_encoder, model,
                   is_trained, hist>>

\* save_model: the flag is checked and the three artifacts are written under
\* output_path, no directory being created before; then export_to_onnx runs
ScikitLearnTFIDFStrategy_save_model(i) ==
    /\ kind = "sklearn"
    /\ IF ~is_trained[i]
       THEN /\ call' = Call("save_model", i, "none", "untrained", <<>>, <<>>, <<>>, {})
            /\ UNCHANGED <<dirs, fs>>
       ELSE LET pm   == SavePath(output_path[i], ModelFile(kind))
                pv   == SavePath(output_path[i], vocab_json)
                ps   == SavePath(output_path[i], scaler_json)
                po   == SavePath(output_path[i], model_onnx)
                f1   == WriteFile(fs, pm, ModelContent(model[i][1]))
                f2   == WriteFile(f1, pv, JsonContent(model[i][1].vocabulary))
                f3   == WriteFile(f2, ps, JsonContent(LabelMapJson(label_encoder[i][1])))
                f4   == WriteFile(f3, po, ModelContent(model[i][1]))
            IN  IF CanWrite(dirs, pm)
                THEN /\ dirs' = makedirs(dirs, Dirname(po))
                     /\ fs' = f4
                     /\ call' = Call("save_model", i, "none", "ok", <<>>, <<>>, <<>>,
                                     {pm, pv, ps, po})
                ELSE /\ UNCHANGED <<dirs, fs>>
                     /\ call' = Call("save_model", i, "none", "FileNotFoundError",
                                     <<>>, <<>>, <<>>, {})
    /\ UNCHANGED <<kind, max_len, output_path, tokenizer, label_encoder, model,
                   is_trained, hist>>

\* load_model(prefix): the pipeline is unpickled, its vocabulary_ replaced by the
\* vocabulary file's, the classes read from the label map; the flag is set last
ScikitLearnTFIDFStrategy_load_model(i, prefix) ==
    /\ kind = "sklearn"
    /\ LET pm == LoadPath(prefix, ModelFile(kind))
           pv == LoadPath(prefix, vocab_json)
           ps == LoadPath(prefix, scaler_json)
           step ==
             IF pm \notin DOMAIN fs THEN 1
             ELSE IF pv \notin DOMAIN fs THEN 3
             ELSE IF ps \notin DOMAIN fs THEN 4
             ELSE IF ~LabelMapKeysOk(fs[ps].json) THEN 5
             ELSE 6
       IN  /\ model' = IF step = 1 THEN model
                       ELSE IF step = 3 THEN [model EXCEPT ![i] = fs[pm].model]
                       ELSE [model EXCEPT ![i] =
                               <<[fs[pm].model[1] EXCEPT !.vocabulary = fs[pv].json]>>]
           /\ label_encoder' = IF step = 6
                               THEN [label_encoder EXCEPT ![i] = <<LabelMapClasses(fs[ps].json)>>]
                               ELSE label_encoder
           /\ is_trained' = IF step = 6 THEN [is_trained EXCEPT ![i] = TRUE] ELSE is_trained
           /\ call' = CallLoad(i, prefix,
                           CASE step = 5 -> "KeyError"
                             [] step = 6 -> "ok"
                             [] OTHER    -> "FileNotFoundError")
           /\ hist' = [hist EXCEPT ![i] = NoteFit(hist[i], step >= 3, step = 6, step = 6)]
    /\ UNCHANGED <<kind, max_len, output_path, tokenizer, dirs, fs>>

(* ------------------------------------------------------------------ *)
(* The specification                                                   *)
(* ------------------------------------------------------------------ *)
Next ==
    \/ \E i \in Trainers, d \in Datasets, p \in 0..MaxParam :
         \/ PyTorchLSTMStrategy_train(i, d, p)
         \/ TensorFlowLSTMStrategy_train(i, d, p)
         \/ ScikitLearnTFIDFStrategy_train(i, d, p)
    \/ \E i \in Inst :
         \/ PyTorchLSTMStrategy_predict(i, Samples)
         \/ TensorFlowLSTMStrategy_predict(i, Samples, "text")
         \/ TensorFlowLSTMStrategy_predict(i, Rows(max_len[i]), "rows")
         \/ ScikitLearnTFIDFStrategy_predict(i, Samples)
    \/ \E i \in Trainers :
         \/ PyTorchLSTMStrategy_save_model(i)
         \/ TensorFlowLSTMStrategy_save_model(i)
         \/ ScikitLearnTFIDFStrategy_save_model(i)
    \/ \E i \in Trainers :
         \/ PyTorchLSTMStrategy_export_to_onnx(i)
         \/ TensorFlowLSTMStrategy_export_to_onnx(i)
         \/ ScikitLearnTFIDFStrategy_export_to_onnx(i)
    \/ \E i \in Inst, prefix \in Prefixes :
         \/ \E p0 \in 0..MaxParam : PyTorchLSTMStrategy_load_model(i, prefix, p0)
         \/ TensorFlowLSTMStrategy_load_model(i, prefix)
         \/ ScikitLearnTFIDFStrategy_load_model(i, prefix)

Spec == Init /\ [][Next]_vars

(* ------------------------------------------------------------------ *)
(* Properties                                                          *)
(* ------------------------------------------------------------------ *)
GatedOps == {"predict", "save_model", "export_to_onnx"}

\* C1: on an instance whose trained flag is unset, every predict, save_model and
\* export_to_onnx call fails with the untrained-model error. (None of the three
\* changes the flag, so the flag after the call is the flag before it.)
C1_UntrainedCallsRaiseUntrained ==
    (call.op \in GatedOps /\ ~is_trained[call.inst]) => call.outcome = "untrained"

\* C2: right after a train call that returned its metrics, predict on raw text,
\* save_model and export_to_onnx succeed, whatever the output_path.
C2_CallsAfterTrainSucceed ==
    (call.after_train /\ call.op \in GatedOps /\ call.arg # "rows")
        => call.outcome = "ok"

\* the characters a prefix is made of, and the prefixes tried
PathChars == {"a", "/", "_", ".", "m"}
MaxPrefixLen == 2
PrefixUniverse == UNION {[1..n -> PathChars] : n \in 0..MaxPrefixLen}

\* C3: for the output_path a save_model wrote to, there is a prefix with which
\* load_model reads the model, vocabulary and label-map files that were written.
C3_LoadReadsWhatSaveWrote ==
    (call.op = "save_model" /\ call.outcome = "ok")
        => \E prefix \in PrefixUniverse :
             \A a \in Artifacts(kind) : LoadPath(prefix, a) \in call.written

\* C4: load_model(prefix) on a freshly constructed instance, the three artifacts
\* of the prefix being there, completes and leaves the trained flag true.
C4_LoadOnFreshInstanceSucceeds ==
    (/\ call.op = "load_model" /\ call.fresh
     /\ \A a \in Artifacts(kind) : LoadPath(call.prefix, a) \in DOMAIN fs)
        => (call.outcome = "ok" /\ is_trained[call.inst])

\* C5: the vocabulary and the label encoder of an instance are fit or set at most
\* once, and exactly once before a predict or save_model that succeeds.
C5_FitExactlyOnce ==
    /\ \A i \in Inst : hist[i].vocab_sets <= 1 /\ hist[i].label_sets <= 1
    /\ (call.op \in {"predict", "save_model"} /\ call.outcome = "ok")
          => (hist[call.inst].vocab_sets = 1 /\ hist[call.inst].label_sets = 1)

\* the fitted state of an instance: vocabulary, classes, model parameters (the
\* pipeline's vocabulary and classes with them), sequence length and trained flag
Fitted(i) ==
    <<tokenizer[i], label_encoder[i],
      IF model[i] = <<>> THEN <<>>
      ELSE <<model[i][1].params, model[i][1].num_classes,
             model[i][1].vocabulary, model[i][1].classes>>,
      max_len[i], is_trained[i]>>

\* C6: a predict call on a Trained instance, whether it returns or raises, leaves
\* the fitted state of every instance as it was.
C6_PredictKeepsFittedState ==
    [][(call'.op = "predict" /\ is_trained[call'.inst])
          => \A i \in Inst : Fitted(i)' = Fitted(i)]_vars

C6_Witness ==
    /\ call.op = "predict" /\ call.outcome = "ok" /\ is_trained[call.inst]
    /\ Len(call.ret) > MaxLen
    /\ model[call.inst][1].params > 0

\* C7 as claimed: the linear strategy's predict returns the class labels themselves.
C7_LinearPredictReturnsLabels ==
    (kind = "sklearn" /\ call.op = "predict" /\ call.outcome = "ok")
        => \A k \in 1..Len(call.ret) :
             /\ call.ret[k].t = "str"
             /\ call.ret[k].s \in Range(label_encoder[call.inst][1])

\* C7 amended: like the recurrent strategies, the linear strategy's predict returns,
\* for every sample, an integer class index below the number of classes of the model.
C7_PredictReturnsIndices ==
    (call.op = "predict" /\ call.outcome = "ok")
        => \A k \in 1..Len(call.ret) :
             /\ call.ret[k].t = "int"
             /\ call.ret[k].i \in 0..(model[call.inst][1].num_classes - 1)

C7_Witness ==
    /\ kind = "sklearn" /\ call.op = "predict" /\ call.outcome = "ok"
    /\ is_trained[call.inst] /\ hist[call.inst].trains > 0
    /\ Len(call.ret) > MaxLen

\* C8: after save_model, the label map in scaler.json, read as load_model reads it,
\* gives back at the class index of every label that label: the classes are the
\* sorted distinct labels and index i of the map holds the i-th of them.
C8_LabelMapRoundTrip ==
    (call.op = "save_model" /\ call.outcome = "ok")
        => LET classes == label_encoder[call.inst][1]
               json    == fs[SavePath(output_path[call.inst], scaler_json)].json
           IN  /\ \A k \in 1..(Len(classes) - 1) : StrLess(classes[k], classes[k + 1])
               /\ Len(json) = Len(classes)
               /\ LabelMapKeysOk(json)
               /\ \A l \in Range(classes) :
                    LabelMapClasses(json)[ClassIndex(classes, l) + 1] = l
               /\ \A a, b \in 1..Len(json) :
                    LabelMapClasses(json)[a] = LabelMapClasses(json)[b] => a = b

C8_Witness ==
    /\ call.op = "save_model" /\ call.outcome = "ok"
    /\ hist[call.inst].trains > 0
    /\ Len(label_encoder[call.inst][1]) > 2

\* C9: the trained flag of an instance is true only if a train or a load_model call
\* on it has returned normally.
C9_TrainedOnlyAfterSuccess ==
    \A i \in Inst : is_trained[i] => hist[i].returned

\* C10 as claimed: every sequence built has max_len entries and is the token-index
\* sequence with its first max_len entries kept, or zero-padded on the right.
C10_KeepsFirstMaxLen ==
    \A k \in 1..Len(call.padded) :
        /\ Len(call.padded[k]) = max_len[call.inst]
        /\ \A j \in 1..max_len[call.inst] :
             call.padded[k][j] =
                IF j <= Len(call.tokens[k]) THEN call.tokens[k][j] ELSE 0

\* C10 amended: every sequence built has max_len entries; of a token-index sequence
\* longer than max_len the last max_len entries are kept, a shorter one is padded on
\* the right with zeros.
C10_KeepsLastMaxLen ==
    /\ Len(call.padded) = Len(call.tokens)
    /\ \A k \in 1..Len(call.padded) :
         LET s == call.tokens[k]
             n == max_len[call.inst]
         IN  /\ Len(call.padded[k]) = n
             /\ \A j \in 1..n :
                  call.padded[k][j] =
                     IF Len(s) > n THEN s[Len(s) - n + j]
                     ELSE IF j <= Len(s) THEN s[j] ELSE 0

C10_Witness ==
    /\ call.op = "predict" /\ call.outcome = "ok"
    /\ \E k \in 1..Len(call.tokens) : Len(call.tokens[k]) = 0
    /\ \E k \in 1..Len(call.tokens) :
         Len(call.tokens[k]) > 0 /\ Len(call.tokens[k]) < max_len[call.inst]
    /\ \E k \in 1..Len(call.tokens) : Len(call.tokens[k]) = max_len[call.inst]
    /\ \E k \in 1..Len(call.tokens) :
         /\ Len(call.tokens[k]) > max_len[call.inst]
         /\ SubSeq(call.tokens[k], 1, max_len[call.inst]) # call.padded[k]

====
